---- MODULE Spec2Model ----
(***************************************************************************)
(* h3kv: conversion between "heading = key, content = value" markdown and  *)
(* schema-validated data objects (src/index.ts).                           *)
(*                                                                         *)
(* A JavaScript string is a sequence of one-character strings, so that     *)
(* trim, toLowerCase, split and join are computed, not assumed.            *)
(***************************************************************************)
EXTENDS Integers, Sequences, FiniteSets, TLC

VARIABLES
    schema,      \* the zod object schema of the call
    nullSupport, \* option githubIssueFormNullValueSupport
    tree,        \* the nodes visit() has handed to the visitor so far
    currentKey,  \* let currentKey (index.ts:73)
    rawData,     \* const rawData (index.ts:71)
    pc,          \* position of the call / of the round-trip loop
    result,      \* what markdownToDataObject returned (or that it threw)
    data,        \* the data object of the round-trip loop
    original,    \* the object the round-trip loop started from
    outputOrder, \* option outputOrder of dataObjectToMarkdown
    children,    \* const children: RootContent[] (index.ts:163)
    markdown,    \* the text dataObjectToMarkdown returned, as lines
    iter,        \* round trips completed
    previous     \* history: the object the last round trip was given

vars == <<schema, nullSupport, tree, currentKey, rawData, pc, result,
          data, original, outputOrder, children, markdown, iter, previous>>

walkVars == <<tree, currentKey, rawData, result>>
tripVars == <<data, original, outputOrder, children, markdown, iter, previous>>

(***************************************************************************)
(* Bounds                                                                  *)
(***************************************************************************)
MaxNodes == 4

(***************************************************************************)
(* Strings                                                                 *)
(***************************************************************************)
NL == "\n"
SP == " "

IsSpace(c) == c \in {SP, NL}

LowerOf(c) ==
    CASE c = "A" -> "a"
      [] c = "B" -> "b"
      [] c = "T" -> "t"
      [] OTHER -> c

toLowerCase(s) == [i \in 1..Len(s) |-> LowerOf(s[i])]

RECURSIVE trimStart(_)
trimStart(s) ==
    IF s # <<>> /\ IsSpace(Head(s)) THEN trimStart(Tail(s)) ELSE s

RECURSIVE trimEnd(_)
trimEnd(s) ==
    IF s # <<>> /\ IsSpace(s[Len(s)])
    THEN trimEnd(SubSeq(s, 1, Len(s) - 1))
    ELSE s

trim(s) == trimEnd(trimStart(s))

\* s.split(sep): always at least one piece, "" splits to [""]
RECURSIVE splitFrom(_, _, _)
splitFrom(s, sep, cur) ==
    IF s = <<>> THEN <<cur>>
    ELSE IF Head(s) = sep THEN <<cur>> \o splitFrom(Tail(s), sep, <<>>)
    ELSE splitFrom(Tail(s), sep, Append(cur, Head(s)))

split(s, sep) == splitFrom(s, sep, <<>>)

RECURSIVE join(_, _)
join(parts, sep) ==
    IF parts = <<>> THEN <<>>
    ELSE IF Len(parts) = 1 THEN parts[1]
    ELSE parts[1] \o <<sep>> \o join(Tail(parts), sep)

\* .map((item) => item.trim())
mapTrim(parts) == [i \in 1..Len(parts) |-> trim(parts[i])]

\* .filter(Boolean) on strings: the empty string is the falsy one
filterBoolean(parts) == SelectSeq(parts, LAMBDA p : p # <<>>)

(***************************************************************************)
(* Schemas (zod).  A field schema is a chain of wrappers (optional,        *)
(* nullable, default: the ones whose def has an innerType) around a base   *)
(* type; base "array" has an element type.                                 *)
(***************************************************************************)
Undefined == [t |-> "undefined", s |-> <<>>, n |-> 0, b |-> FALSE, a |-> <<>>]
Null == [t |-> "null", s |-> <<>>, n |-> 0, b |-> FALSE, a |-> <<>>]
Str(x)  == [t |-> "string",  s |-> x,    n |-> 0, b |-> FALSE, a |-> <<>>]
Num(x)  == [t |-> "number",  s |-> <<>>, n |-> x, b |-> FALSE, a |-> <<>>]
Bool(x) == [t |-> "boolean", s |-> <<>>, n |-> 0, b |-> x,     a |-> <<>>]
Arr(x)  == [t |-> "array",   s |-> <<>>, n |-> 0, b |-> FALSE, a |-> x]

\* values: the members of an enum; dflt: the value of a default wrapper
Field(name, wrappers, base, element, values, dflt) ==
    [name |-> name, wrappers |-> wrappers, base |-> base,
     element |-> element, values |-> values, dflt |-> dflt]

\* Object.keys(schema._zod.def.shape)
ObjectKeys(S) == [i \in 1..Len(S.shape) |-> S.shape[i].name]

KeySet(S) == {S.shape[i].name : i \in 1..Len(S.shape)}

\* schema._zod.def.shape[key], for a key the shape declares
FieldOf(S, key) ==
    S.shape[CHOOSE i \in 1..Len(S.shape) : S.shape[i].name = key]

\* mutant: the key is trimmed but its case is kept
normalizeKeyTrimOnly(key) == trim(key)

normalizeKey(key) == toLowerCase(trim(key))

\* "null" for an undeclared key; else whether the field schema, with one
\* level of wrapping removed, is a ZodArray
isArrayKey(S, key) ==
    IF key \notin KeySet(S) THEN "null"
    ELSE LET f == FieldOf(S, key)
             inner == IF f.wrappers # <<>> THEN Tail(f.wrappers) ELSE <<>>
         IN  IF inner = <<>> /\ f.base = "array" THEN "true" ELSE "false"

\* the reduce of buildSchemaKeyMap: a later field overwrites an earlier
\* one with the same normalized name
RECURSIVE reduceKeyMap(_, _)
reduceKeyMap(names, acc) ==
    IF names = <<>> THEN acc
    ELSE reduceKeyMap(Tail(names),
                      (normalizeKey(Head(names)) :> Head(names)) @@ acc)

buildSchemaKeyMap(S) == reduceKeyMap(ObjectKeys(S), <<>>)

(***************************************************************************)
(* schemaKeyMap is a plain object ({}), so reading a property it does not  *)
(* own falls through to Object.prototype.  normalizeKey lower-cases the    *)
(* heading, so the prototype properties a heading can name are the         *)
(* all-lower-case ones.  As a property key such a value is converted to    *)
(* its string.                                                             *)
(***************************************************************************)
S_constructor == <<"c", "o", "n", "s", "t", "r", "u", "c", "t", "o", "r">>
S_proto == <<"_", "_", "p", "r", "o", "t", "o", "_", "_">>
S_ObjectFunction == <<"f", "u", "n", "c", "t", "i", "o", "n", " ", "O", "b", "j", "e", "c", "t", "(", ")", " ", "{", " ", "[", "n", "a", "t", "i", "v", "e", " ", "c", "o", "d", "e", "]", " ", "}">>
S_ObjectObject == <<"[", "o", "b", "j", "e", "c", "t", " ", "O", "b", "j", "e", "c", "t", "]">>

ObjectPrototype == (S_constructor :> S_ObjectFunction) @@ (S_proto :> S_ObjectObject)

NoKey == [kind |-> "undefined", name |-> <<>>]

\* schemaKeyMap[k]
getProperty(map, k) ==
    IF k \in DOMAIN map THEN [kind |-> "field", name |-> map[k]]
    ELSE IF k \in DOMAIN ObjectPrototype
         THEN [kind |-> "inherited", name |-> ObjectPrototype[k]]
         ELSE NoKey

\* !currentKey is false
Truthy(key) ==
    \/ key.kind = "inherited"
    \/ key.kind = "field" /\ key.name # <<>>

(***************************************************************************)
(* The document tree.  text is getContentAsText(node), items the           *)
(* getContentAsText of each list item, emphasis whether the first inline   *)
(* child is an emphasis node, top whether the parent is the root.          *)
(***************************************************************************)
Node(type, depth, text, items, emphasis, top) ==
    [type |-> type, depth |-> depth, text |-> text, items |-> items,
     emphasis |-> emphasis, top |-> top]

Heading(depth, text) == Node("heading", depth, text, <<>>, FALSE, TRUE)
Paragraph(text, emphasis) == Node("paragraph", 0, text, <<>>, emphasis, TRUE)
List(items) == Node("list", 0, <<>>, items, FALSE, TRUE)

RawStr(x) == [kind |-> "string", s |-> x, a |-> <<>>]
RawArr(x) == [kind |-> "array", s |-> <<>>, a |-> x]
RawUndefined == [kind |-> "undefined", s |-> <<>>, a |-> <<>>]

\* rawData[key]
rawGet(raw, key) == IF key \in DOMAIN raw THEN raw[key] ELSE RawUndefined

S_NoResponse == <<"N", "o", " ", "r", "e", "s", "p", "o", "n", "s", "e">>

\* index.ts:100-109 and 128-144: what one block adds to rawData[key]
\* mutant: a later block replaces the array accumulated so far
accumulateArrayOverwrite(raw, key, values) == (key :> RawArr(values)) @@ raw

accumulateArray(raw, key, values) ==
    (key :> RawArr(rawGet(raw, key).a \o values)) @@ raw

\* mutant: a later block replaces what the earlier blocks accumulated
accumulateScalarOverwrite(raw, key, value) == (key :> RawStr(value)) @@ raw

\* mutant: blocks are concatenated without the newline between them
accumulateScalarNoSeparator(raw, key, value) ==
    (key :> RawStr(rawGet(raw, key).s \o value)) @@ raw

accumulateScalar(raw, key, value) ==
    LET old == rawGet(raw, key)
    IN  (key :> RawStr(IF old.kind = "string" /\ old.s # <<>>
                       THEN old.s \o <<NL>> \o value
                       ELSE value)) @@ raw

\* mutant: the items are trimmed but the empty ones are kept
visitListNoFilter(st, node, S) ==
    LET values == mapTrim(node.items)
        key == st.currentKey.name
    IN  IF values = <<>> THEN st
        ELSE IF isArrayKey(S, key) = "true"
        THEN [st EXCEPT !.rawData = accumulateArray(st.rawData, key, values)]
        ELSE [st EXCEPT !.rawData =
                 accumulateScalar(st.rawData, key, join(values, NL))]

visitList(st, node, S) ==
    LET values == filterBoolean(mapTrim(node.items))
        key == st.currentKey.name
    IN  IF values = <<>> THEN st
        ELSE IF isArrayKey(S, key) = "true"
        THEN [st EXCEPT !.rawData = accumulateArray(st.rawData, key, values)]
        ELSE [st EXCEPT !.rawData =
                 accumulateScalar(st.rawData, key, join(values, NL))]

\* mutant: the placeholder is recognized by its text alone
visitParagraphTextOnly(st, node, S, nullValueSupport) ==
    LET value == trim(node.text)
        key == st.currentKey.name
        values == filterBoolean(mapTrim(split(value, NL)))
    IN  IF value = <<>> THEN st
        ELSE IF nullValueSupport /\ value = S_NoResponse
        THEN st
        ELSE IF isArrayKey(S, key) = "true"
        THEN IF values = <<>> THEN st
             ELSE [st EXCEPT !.rawData =
                      accumulateArray(st.rawData, key, values)]
        ELSE [st EXCEPT !.rawData = accumulateScalar(st.rawData, key, value)]

\* mutant: a paragraph without text is accumulated too
visitParagraphKeepEmpty(st, node, S, nullValueSupport) ==
    LET value == trim(node.text)
        key == st.currentKey.name
        values == filterBoolean(mapTrim(split(value, NL)))
    IN  IF nullValueSupport /\ value = S_NoResponse /\ node.emphasis
        THEN st
        ELSE IF isArrayKey(S, key) = "true"
        THEN IF values = <<>> THEN st
             ELSE [st EXCEPT !.rawData =
                      accumulateArray(st.rawData, key, values)]
        ELSE [st EXCEPT !.rawData = accumulateScalar(st.rawData, key, value)]

visitParagraph(st, node, S, nullValueSupport) ==
    LET value == trim(node.text)
        key == st.currentKey.name
        values == filterBoolean(mapTrim(split(value, NL)))
    IN  IF value = <<>> THEN st
        ELSE IF nullValueSupport /\ value = S_NoResponse /\ node.emphasis
        THEN st
        ELSE IF isArrayKey(S, key) = "true"
        THEN IF values = <<>> THEN st
             ELSE [st EXCEPT !.rawData =
                      accumulateArray(st.rawData, key, values)]
        ELSE [st EXCEPT !.rawData = accumulateScalar(st.rawData, key, value)]

\* mutant: a heading starts the value of its field afresh
visitHeadingReset(st, node, S) ==
    LET key == getProperty(buildSchemaKeyMap(S), normalizeKey(node.text))
    IN  [currentKey |-> key,
         rawData |-> [k \in DOMAIN st.rawData \ {key.name} |-> st.rawData[k]]]

visitHeading(st, node, S) ==
    [st EXCEPT !.currentKey =
        getProperty(buildSchemaKeyMap(S), normalizeKey(node.text))]

\* the visitor callback of visit(tree, ["heading", "paragraph", "list"], ..)
visitor(st, node, S, nullValueSupport) ==
    IF ~node.top THEN st
    ELSE IF node.type = "heading" THEN visitHeading(st, node, S)
    ELSE IF ~Truthy(st.currentKey) THEN st
    ELSE IF node.type = "list" THEN visitList(st, node, S)
    ELSE IF node.type = "paragraph"
    THEN visitParagraph(st, node, S, nullValueSupport)
    ELSE st

\* the test of visit(): node types the visitor is called for
VisitTest == {"heading", "paragraph", "list"}

walkStep(st, node, S, nullValueSupport) ==
    IF node.type \in VisitTest THEN visitor(st, node, S, nullValueSupport)
    ELSE st

WalkStart == [currentKey |-> NoKey, rawData |-> <<>>]

RECURSIVE walk(_, _, _, _)
walk(st, nodes, S, nullValueSupport) ==
    IF nodes = <<>> THEN st
    ELSE walk(walkStep(st, Head(nodes), S, nullValueSupport),
              Tail(nodes), S, nullValueSupport)

(***************************************************************************)
(* z.parse(schema, rawData): coercion and validation of the raw mapping.   *)
(***************************************************************************)
Digits == {"0", "1", "2", "3", "4", "5", "6", "7", "8", "9"}

DigitValue(c) ==
    CASE c = "0" -> 0 [] c = "1" -> 1 [] c = "2" -> 2 [] c = "3" -> 3
      [] c = "4" -> 4 [] c = "5" -> 5 [] c = "6" -> 6 [] c = "7" -> 7
      [] c = "8" -> 8 [] c = "9" -> 9

DigitChar(d) ==
    CASE d = 0 -> "0" [] d = 1 -> "1" [] d = 2 -> "2" [] d = 3 -> "3"
      [] d = 4 -> "4" [] d = 5 -> "5" [] d = 6 -> "6" [] d = 7 -> "7"
      [] d = 8 -> "8" [] d = 9 -> "9"

RECURSIVE digitsToNat(_, _)
digitsToNat(s, acc) ==
    IF s = <<>> THEN acc
    ELSE digitsToNat(Tail(s), 10 * acc + DigitValue(Head(s)))

RECURSIVE natToDigits(_)
natToDigits(n) ==
    IF n < 10 THEN <<DigitChar(n)>>
    ELSE Append(natToDigits(n \div 10), DigitChar(n % 10))

Failed == [ok |-> FALSE, value |-> Undefined]
Parsed(v) == [ok |-> TRUE, value |-> v]

\* Number(text) of z.coerce.number(), on the decimal naturals; any other
\* text of the model's alphabet is NaN, which the number schema rejects
coerceNumber(text) ==
    LET t == trim(text)
    IN  IF t = <<>> THEN Parsed(Num(0))
        ELSE IF \A i \in 1..Len(t) : t[i] \in Digits
        THEN Parsed(Num(digitsToNat(t, 0)))
        ELSE Failed

S_true == <<"t", "r", "u", "e">>
S_false == <<"f", "a", "l", "s", "e">>
S_yes == <<"y", "e", "s">>
S_no == <<"n", "o">>

\* z.stringbool(): case-insensitive, unknown strings are rejected
stringbool(text) ==
    LET t == toLowerCase(text)
    IN  IF t \in {S_true, <<"1">>, S_yes} THEN Parsed(Bool(TRUE))
        ELSE IF t \in {S_false, <<"0">>, S_no} THEN Parsed(Bool(FALSE))
        ELSE Failed

\* a base type other than array, applied to one raw string
parseScalar(base, values, text) ==
    CASE base = "string" -> Parsed(Str(text))
      [] base = "number" -> coerceNumber(text)
      [] base = "stringbool" -> stringbool(text)
      [] base = "enum" -> IF text \in values THEN Parsed(Str(text)) ELSE Failed
      [] OTHER -> Failed

parseBase(f, raw) ==
    IF f.base = "array"
    THEN IF raw.kind # "array" THEN Failed
         ELSE LET items == [i \in 1..Len(raw.a) |->
                               parseScalar(f.element, f.values, raw.a[i])]
              IN  IF \A i \in 1..Len(items) : items[i].ok
                  THEN Parsed(Arr([i \in 1..Len(items) |-> items[i].value]))
                  ELSE Failed
    ELSE IF raw.kind # "string" THEN Failed
    ELSE parseScalar(f.base, f.values, raw.s)

\* the wrappers, outermost first
RECURSIVE parseWrapped(_, _, _)
parseWrapped(f, wrappers, raw) ==
    IF wrappers = <<>> THEN parseBase(f, raw)
    ELSE IF raw.kind = "undefined" /\ Head(wrappers) = "optional"
    THEN Parsed(Undefined)
    ELSE IF raw.kind = "undefined" /\ Head(wrappers) = "default"
    THEN Parsed(f.dflt)
    ELSE parseWrapped(f, Tail(wrappers), raw)

parseField(f, raw) == parseWrapped(f, f.wrappers, raw)

Thrown == [status |-> "thrown", value |-> <<>>]
Returned(obj) == [status |-> "returned", value |-> obj]
NoResult == [status |-> "none", value |-> <<>>]

\* mutant: the fields that fail are left out and the rest is returned
zparsePartial(S, raw) ==
    LET out == [k \in KeySet(S) |-> parseField(FieldOf(S, k), rawGet(raw, k))]
    IN  Returned([k \in KeySet(S) |->
                     IF out[k].ok THEN out[k].value ELSE Undefined])

\* a strictObject rejects keys it does not declare, an object strips them
zparse(S, raw) ==
    LET out == [k \in KeySet(S) |-> parseField(FieldOf(S, k), rawGet(raw, k))]
    IN  IF S.strict /\ ~(DOMAIN raw \subseteq KeySet(S)) THEN Thrown
        ELSE IF \E k \in KeySet(S) : ~out[k].ok THEN Thrown
        ELSE Returned([k \in KeySet(S) |-> out[k].value])

(***************************************************************************)
(* markdownToDataObject, one visitor call at a time.  The tree that        *)
(* remark-parse produced is the sequence of nodes visit() walks.           *)
(***************************************************************************)
K_Ab == <<"A", "b">>
K_ab == <<"a", "b">>
K_tags == <<"t", "a", "g", "s">>
S_x == <<"x">>

StringField(name, wrappers) == Field(name, wrappers, "string", "none", {}, Undefined)
ArrayField(name, wrappers, element) ==
    Field(name, wrappers, "array", element, {}, Arr(<<>>))

\* z.object({ Ab: z.string(), tags: z.array(z.string()).default([]) })
SchemaW1 ==
    [strict |-> FALSE,
     shape |-> <<StringField(K_Ab, <<>>), ArrayField(K_tags, <<"default">>, "string")>>]

\* z.strictObject({ Ab: z.enum(["x"]).optional(), tags: z.coerce.number() })
SchemaW2 ==
    [strict |-> TRUE,
     shape |-> <<Field(K_Ab, <<"optional">>, "enum", "none", {S_x}, Undefined),
                 Field(K_tags, <<>>, "number", "none", {}, Undefined)>>]

\* z.object({ Ab: z.string().optional(), ab: z.array(z.string()) })
SchemaW3 ==
    [strict |-> FALSE,
     shape |-> <<StringField(K_Ab, <<"optional">>), ArrayField(K_ab, <<>>, "string")>>]

WalkSchemas == {SchemaW1, SchemaW2, SchemaW3}

DocHeadings ==
    {Heading(3, K_ab), Heading(1, <<"T", "a", "g", "s", " ">>), Heading(3, <<"z">>),
     Heading(3, S_constructor)}

DocParagraphs ==
    {Paragraph(S_x, FALSE), Paragraph(<<"x", NL, SP, "1">>, FALSE),
     Paragraph(<<SP>>, FALSE), Paragraph(S_x, TRUE),
     Paragraph(S_NoResponse, TRUE), Paragraph(S_NoResponse, FALSE)}

DocLists == {List(<<S_x>>), List(<<<<>>, <<"1", SP>>>>), List(<<<<SP>>>>)}

\* a code block (no type visit() tests for) and the paragraph of a list item
DocOthers ==
    {Node("code", 0, S_x, <<>>, FALSE, TRUE),
     Node("paragraph", 0, S_x, <<>>, FALSE, FALSE)}

DocNodes == DocHeadings \cup DocParagraphs \cup DocLists \cup DocOthers

NoObject == <<>>

\* option outputOrder left undefined
NoOrder == [given |-> FALSE, keys |-> <<>>]

InitWalk ==
    /\ schema \in WalkSchemas
    /\ nullSupport \in BOOLEAN
    /\ tree = <<>>
    /\ currentKey = NoKey
    /\ rawData = <<>>
    /\ result = NoResult
    /\ pc = "walk"
    /\ data = NoObject
    /\ original = NoObject
    /\ outputOrder = NoOrder
    /\ children = <<>>
    /\ markdown = <<>>
    /\ iter = 0
    /\ previous = NoObject

WalkState == [currentKey |-> currentKey, rawData |-> rawData]

VisitNode(node) ==
    /\ pc = "walk"
    /\ Len(tree) < MaxNodes
    /\ LET st == walkStep(WalkState, node, schema, nullSupport)
       IN  /\ currentKey' = st.currentKey
           /\ rawData' = st.rawData
    /\ tree' = Append(tree, node)
    /\ UNCHANGED <<schema, nullSupport, pc, result>>
    /\ UNCHANGED tripVars

VisitHeadingNode == \E node \in DocHeadings : VisitNode(node)
VisitParagraphNode == \E node \in DocParagraphs : VisitNode(node)
VisitListNode == \E node \in DocLists : VisitNode(node)
PassOtherNode == \E node \in DocOthers : VisitNode(node)

\* return z.parse(schema, rawData)
Validate ==
    /\ pc = "walk"
    /\ result' = zparse(schema, rawData)
    /\ pc' = result'.status
    /\ UNCHANGED <<schema, nullSupport, tree, currentKey, rawData>>
    /\ UNCHANGED tripVars

Next ==
    \/ VisitHeadingNode
    \/ VisitParagraphNode
    \/ VisitListNode
    \/ PassOtherNode
    \/ Validate

Spec == InitWalk /\ [][Next]_vars

(***************************************************************************)
(* The same walk over longer documents made of fewer kinds of node: three  *)
(* headings, a paragraph and a list, so that a heading can come back after *)
(* another one with content on both sides.                                 *)
(***************************************************************************)
MaxSectionNodes == 6

SectionNodes ==
    {Heading(3, K_ab), Heading(1, <<"T", "a", "g", "s", " ">>), Heading(3, <<"z">>),
     Paragraph(S_x, FALSE), List(<<<<>>, <<"1", SP>>>>)}

VisitSectionNode ==
    \E node \in SectionNodes :
        /\ pc = "walk"
        /\ Len(tree) < MaxSectionNodes
        /\ LET st == walkStep(WalkState, node, schema, nullSupport)
           IN  /\ currentKey' = st.currentKey
               /\ rawData' = st.rawData
        /\ tree' = Append(tree, node)
        /\ UNCHANGED <<schema, nullSupport, pc, result>>
        /\ UNCHANGED tripVars

NextSections == VisitSectionNode \/ Validate

SpecSections == InitWalk /\ [][NextSections]_vars

(***************************************************************************)
(* dataObjectToMarkdown                                                    *)
(***************************************************************************)
\* String(value): stringOf, on the values of the model (numbers are naturals)
RECURSIVE stringOf(_)
stringOf(v) ==
    CASE v.t = "string" -> v.s
      [] v.t = "number" -> natToDigits(v.n)
      [] v.t = "boolean" -> IF v.b THEN S_true ELSE S_false
      [] v.t = "null" -> <<"n", "u", "l", "l">>
      [] v.t = "undefined" -> <<"u", "n", "d", "e", "f", "i", "n", "e", "d">>
      [] v.t = "array" -> join([i \in 1..Len(v.a) |-> stringOf(v.a[i])], ",")

\* mutant: every falsy value is omitted (!value)
shouldOmitFalsy(value) ==
    \/ value.t \in {"null", "undefined"}
    \/ value.t = "string" /\ trim(value.s) = <<>>
    \/ value.t = "number" /\ value.n = 0
    \/ value.t = "boolean" /\ ~value.b

shouldOmit(value) ==
    \/ value.t \in {"null", "undefined"}
    \/ value.t = "string" /\ trim(value.s) = <<>>

\* data[key]
dataGet(obj, key) == IF key \in DOMAIN obj THEN obj[key] ELSE Undefined

\* index.ts:177-180
arrayValues(rawValue) ==
    LET kept == SelectSeq(rawValue.a, LAMBDA v : ~shouldOmit(v))
    IN  filterBoolean([i \in 1..Len(kept) |-> trim(stringOf(kept[i]))])

\* index.ts:198-201
scalarValues(rawValue) == filterBoolean(mapTrim(split(stringOf(rawValue), NL)))

\* one iteration of the for loop: the blocks it pushes onto children
fieldBlocks(key, rawValue, headingDepth) ==
    IF shouldOmit(rawValue) THEN <<>>
    ELSE <<Heading(headingDepth, key)>> \o
         (IF rawValue.t = "array"
          THEN IF arrayValues(rawValue) = <<>> THEN <<>>
               ELSE <<List(arrayValues(rawValue))>>
          ELSE [i \in 1..Len(scalarValues(rawValue)) |->
                   Paragraph(scalarValues(rawValue)[i], FALSE)])

RECURSIVE buildChildren(_, _, _)
buildChildren(keys, obj, headingDepth) ==
    IF keys = <<>> THEN <<>>
    ELSE fieldBlocks(Head(keys), dataGet(obj, Head(keys)), headingDepth)
         \o buildChildren(Tail(keys), obj, headingDepth)

\* mutant: the option outputOrder is not looked at
serializeKeysDeclared(S, order) == ObjectKeys(S)

\* outputOrder ?? Object.keys(schema._zod.def.shape)
serializeKeys(S, order) == IF order.given THEN order.keys ELSE ObjectKeys(S)

DefaultHeadingDepth == 3

(***************************************************************************)
(* remark-stringify and remark-parse, on the dialect the serializer        *)
(* writes: ATX headings, one-line paragraphs, tight "-" lists, blocks      *)
(* separated by a blank line.  A character that would start a block at the *)
(* beginning of a line is written with a backslash, and read back without. *)
(***************************************************************************)
BS == "\\"
AtBreakUnsafe == {"#", "-"}

\* mutant: text is written as it is
escapeNothing(text) == text

escape(text) ==
    IF text # <<>> /\ Head(text) \in AtBreakUnsafe THEN <<BS>> \o text ELSE text

RECURSIVE unescape(_)
unescape(text) ==
    IF text = <<>> THEN <<>>
    ELSE IF Head(text) = BS /\ Len(text) > 1 /\ text[2] \in AtBreakUnsafe \cup {BS}
    THEN <<text[2]>> \o unescape(Tail(Tail(text)))
    ELSE <<Head(text)>> \o unescape(Tail(text))

hashes(depth) == [i \in 1..depth |-> "#"]

\* the lines of one block
blockLines(node) ==
    CASE node.type = "heading" ->
            <<IF node.text = <<>> THEN hashes(node.depth)
              ELSE hashes(node.depth) \o <<SP>> \o escape(node.text)>>
      [] node.type = "paragraph" -> <<escape(node.text)>>
      [] node.type = "list" ->
            [i \in 1..Len(node.items) |-> <<"-", SP>> \o escape(node.items[i])]

\* blocks are joined by a blank line; list items by nothing (the join option)
RECURSIVE documentLines(_)
documentLines(blocks) ==
    IF blocks = <<>> THEN <<>>
    ELSE IF Len(blocks) = 1 THEN blockLines(blocks[1])
    ELSE blockLines(blocks[1]) \o <<<<>>>> \o documentLines(Tail(blocks))

\* unified().use(remarkStringify, ..).stringify(tree).trim()
stringify(blocks) == trim(join(documentLines(blocks), NL))

\* number of "#" a line starts with
RECURSIVE leadingHashes(_)
leadingHashes(line) ==
    IF line # <<>> /\ Head(line) = "#" THEN 1 + leadingHashes(Tail(line)) ELSE 0

IsHeadingLine(line) ==
    LET d == leadingHashes(line)
    IN  /\ d \in 1..6
        /\ (Len(line) = d \/ line[d + 1] = SP)

IsItemLine(line) ==
    /\ line # <<>>
    /\ Head(line) = "-"
    /\ (Len(line) = 1 \/ line[2] = SP)

\* close the paragraph being read, if any
flush(acc, para) ==
    IF para = <<>> THEN acc
    ELSE Append(acc, Paragraph(unescape(join(para, NL)), FALSE))

\* acc: the blocks read so far; para: the lines of the open paragraph
RECURSIVE parseLines(_, _, _)
parseLines(lines, acc, para) ==
    IF lines = <<>> THEN flush(acc, para)
    ELSE LET line == trim(Head(lines))
             rest == Tail(lines)
             done == flush(acc, para)
         IN  IF line = <<>> THEN parseLines(rest, done, <<>>)
             ELSE IF IsHeadingLine(line)
             THEN parseLines(rest,
                     Append(done, Heading(leadingHashes(line),
                         unescape(trim(SubSeq(line, leadingHashes(line) + 1,
                                              Len(line)))))),
                     <<>>)
             ELSE IF IsItemLine(line)
             THEN LET item == unescape(trim(Tail(line)))
                  IN  IF done # <<>> /\ done[Len(done)].type = "list"
                      THEN parseLines(rest,
                              [done EXCEPT ![Len(done)].items = Append(@, item)],
                              <<>>)
                      ELSE parseLines(rest, Append(done, List(<<item>>)), <<>>)
             ELSE parseLines(rest, acc, Append(para, line))

\* the order in which visit() reaches heading, paragraph and list nodes:
\* the paragraph inside each list item comes after its list
RECURSIVE visitOrder(_)
visitOrder(blocks) ==
    IF blocks = <<>> THEN <<>>
    ELSE LET b == Head(blocks)
             inner == SelectSeq(b.items, LAMBDA it : it # <<>>)
         IN  <<b>> \o [i \in 1..Len(inner) |->
                          Node("paragraph", 0, inner[i], <<>>, FALSE, FALSE)]
                 \o visitOrder(Tail(blocks))

\* unified().use(remarkParse).parse(markdown), as visit() walks it
parse(text) == visitOrder(parseLines(split(text, NL), <<>>, <<>>))

\* the whole of markdownToDataObject
markdownToDataObject(text, S, nullValueSupport) ==
    zparse(S, walk(WalkStart, parse(text), S, nullValueSupport).rawData)

\* the whole of dataObjectToMarkdown
dataObjectToMarkdown(obj, S, order) ==
    stringify(buildChildren(serializeKeys(S, order), obj, DefaultHeadingDepth))

(***************************************************************************)
(* The round-trip loop of the tests (index.test.ts:773-777):               *)
(*   markdown = dataObjectToMarkdown(data, schema)                         *)
(*   data = markdownToDataObject(markdown, schema)                         *)
(***************************************************************************)
RoundTrips == 5

K_text == <<"t", "e", "x", "t">>
K_number == <<"n", "u", "m", "b", "e", "r">>
K_list == <<"l", "i", "s", "t">>
K_flag == <<"f", "l", "a", "g">>
K_q == <<"q">>
K_note == <<"n", "o", "t", "e">>

\* z.object({ text: z.string(), number: z.coerce.number(),
\*            list: z.array(z.string()) })
SchemaT1 ==
    [strict |-> FALSE,
     shape |-> <<StringField(K_text, <<>>),
                 Field(K_number, <<>>, "number", "none", {}, Undefined),
                 ArrayField(K_list, <<>>, "string")>>]

\* z.strictObject({ flag: z.stringbool(),
\*                  q: z.array(z.coerce.number()).default([]),
\*                  note: z.string().nullable().optional() })
SchemaT2 ==
    [strict |-> TRUE,
     shape |-> <<Field(K_flag, <<>>, "stringbool", "none", {}, Undefined),
                 ArrayField(K_q, <<"default">>, "number"),
                 StringField(K_note, <<"optional", "nullable">>)>>]

\* z.object({ Ab: z.string().optional(), ab: z.array(z.stringbool()) })
SchemaT3 ==
    [strict |-> FALSE,
     shape |-> <<StringField(K_Ab, <<"optional">>),
                 ArrayField(K_ab, <<>>, "stringbool")>>]

TripSchemas == {SchemaT1, SchemaT2, SchemaT3}

Strs(set) == {Str(x) : x \in set}

TextValues ==
    {S_x, <<SP, "x", SP>>, <<"x", NL, "y">>, <<"x", NL, SP, NL, "y">>,
     <<"#", SP, "x">>, <<SP>>}

ListValues ==
    {<<>>, <<Str(S_x)>>, <<Str(S_x), Str(<<SP>>), Str(<<"y", SP>>)>>,
     <<Str(<<>>)>>}

ObjectsT1 ==
    {(K_text :> t) @@ (K_number :> n) @@ (K_list :> Arr(l)) :
        t \in Strs(TextValues), n \in {Num(0), Num(12)}, l \in ListValues}

ObjectsT2 ==
    {(K_flag :> f) @@ (K_q :> Arr(q)) @@ (K_note :> t) :
        f \in {Bool(TRUE), Bool(FALSE)},
        q \in {<<>>, <<Num(0)>>, <<Num(1), Num(0)>>},
        t \in {Undefined, Null, Str(S_x)}}

ObjectsT3 ==
    {(K_Ab :> t) @@ (K_ab :> Arr(l)) :
        t \in {Undefined, Str(S_yes)},
        l \in {<<Bool(FALSE)>>, <<Bool(TRUE), Bool(FALSE)>>}}

Objects(S) ==
    CASE S = SchemaT1 -> ObjectsT1
      [] S = SchemaT2 -> ObjectsT2
      [] S = SchemaT3 -> ObjectsT3

RECURSIVE reverse(_)
reverse(q) == IF q = <<>> THEN <<>> ELSE Append(reverse(Tail(q)), Head(q))

InitTrip ==
    /\ schema \in TripSchemas
    /\ nullSupport = TRUE
    /\ data \in Objects(schema)
    /\ original = data
    /\ outputOrder \in {NoOrder, [given |-> TRUE, keys |-> reverse(ObjectKeys(schema))]}
    /\ children = <<>>
    /\ markdown = <<>>
    /\ iter = 0
    /\ previous = NoObject
    /\ pc = "object"
    /\ tree = <<>>
    /\ currentKey = NoKey
    /\ rawData = <<>>
    /\ result = NoResult

DataObjectToMarkdown ==
    /\ pc = "object"
    /\ iter < RoundTrips
    /\ children' = buildChildren(serializeKeys(schema, outputOrder), data,
                                 DefaultHeadingDepth)
    /\ markdown' = stringify(children')
    /\ pc' = "markdown"
    /\ UNCHANGED <<schema, nullSupport, data, original, outputOrder, iter,
                   previous>>
    /\ UNCHANGED walkVars

MarkdownToDataObject ==
    /\ pc = "markdown"
    /\ tree' = parse(markdown)
    /\ LET st == walk(WalkStart, tree', schema, nullSupport)
       IN  /\ currentKey' = st.currentKey
           /\ rawData' = st.rawData
    /\ result' = zparse(schema, rawData')
    /\ previous' = data
    /\ IF result'.status = "returned"
       THEN /\ data' = result'.value
            /\ iter' = iter + 1
            /\ pc' = "object"
       ELSE /\ pc' = "thrown"
            /\ UNCHANGED <<data, iter>>
    /\ UNCHANGED <<schema, nullSupport, original, outputOrder, children, markdown>>

NextTrip == DataObjectToMarkdown \/ MarkdownToDataObject

SpecTrip == InitTrip /\ [][NextTrip]_vars

(***************************************************************************)
(* dataObjectToMarkdown alone, over every outputOrder made of declared     *)
(* field names (readonly SchemaOutputKey<T>[]: any length, any order,      *)
(* repetitions allowed) and over objects that carry a key the schema does  *)
(* not declare.                                                            *)
(***************************************************************************)
K_extra == <<"e", "x", "t", "r", "a">>

\* the objects of the round trips, and each with one undeclared key more
ObjectsOut(S) ==
    Objects(S) \cup {(K_extra :> v) @@ obj : obj \in Objects(S), v \in {Str(S_x), Num(0)}}

OutputOrders(S) ==
    {NoOrder} \cup
    {[given |-> TRUE, keys |-> q] :
        q \in UNION {[1..n -> KeySet(S)] : n \in 0..Len(S.shape)}}

InitOut ==
    /\ schema \in TripSchemas
    /\ nullSupport = TRUE
    /\ data \in ObjectsOut(schema)
    /\ original = data
    /\ outputOrder \in OutputOrders(schema)
    /\ children = <<>>
    /\ markdown = <<>>
    /\ iter = 0
    /\ previous = NoObject
    /\ pc = "object"
    /\ tree = <<>>
    /\ currentKey = NoKey
    /\ rawData = <<>>
    /\ result = NoResult

SpecOut == InitOut /\ [][DataObjectToMarkdown]_vars

(***************************************************************************)
(* Vocabulary of the properties, stated without the operators above that   *)
(* model the two conversions.                                              *)
(***************************************************************************)
AllSpace(text) == \A i \in 1..Len(text) : IsSpace(text[i])

\* the non-blank lines of a text, each trimmed
CleanLines(text) ==
    LET lines == split(text, NL)
        kept == SelectSeq(lines, LAMBDA l : ~AllSpace(l))
    IN  [i \in 1..Len(kept) |-> trim(kept[i])]

IsEmptyValue(v) ==
    \/ v.t \in {"null", "undefined"}
    \/ v.t = "string" /\ AllSpace(v.s)

\* a value that the serializer's whitespace handling leaves nothing of
NormalizesToEmpty(v) ==
    \/ IsEmptyValue(v)
    \/ v.t = "array" /\ \A i \in 1..Len(v.a) : IsEmptyValue(v.a[i])

NoEmptyField(obj) == \A k \in DOMAIN obj : ~NormalizesToEmpty(obj[k])

\* each line of a string trimmed and its blank lines dropped; each string
\* element of an array trimmed and the empty elements dropped
NormElement(v) == IF v.t = "string" THEN Str(trim(v.s)) ELSE v

NormValue(v) ==
    CASE v.t = "string" -> Str(join(CleanLines(v.s), NL))
      [] v.t = "array" ->
            LET kept == SelectSeq(v.a, LAMBDA e : ~IsEmptyValue(e))
            IN  Arr([i \in 1..Len(kept) |-> NormElement(kept[i])])
      [] OTHER -> v

NormObject(obj) == [k \in DOMAIN obj |-> NormValue(obj[k])]

SameFold(a, b) == toLowerCase(trim(a)) = toLowerCase(trim(b))

\* no two declared names agree after trim + lower-casing
DistinctKeys(S) ==
    \A i, j \in 1..Len(S.shape) :
        i # j => ~SameFold(S.shape[i].name, S.shape[j].name)

\* the first round trip has ended
AfterFirstTrip ==
    \/ pc = "object" /\ iter = 1
    \/ pc = "thrown" /\ iter = 0

HeadingPositions(key) ==
    {i \in 1..Len(children) :
        children[i].type = "heading" /\ children[i].text = key}

\* the block right after the heading of key is the paragraph `text`
HeadingThenText(key, text) ==
    \E i \in HeadingPositions(key) :
        /\ i < Len(children)
        /\ children[i + 1].type = "paragraph"
        /\ children[i + 1].text = text

\* the block right after the heading of key is a list with the item `text`
HeadingThenItem(key, text) ==
    \E i \in HeadingPositions(key) :
        /\ i < Len(children)
        /\ children[i + 1].type = "list"
        /\ \E j \in 1..Len(children[i + 1].items) :
              children[i + 1].items[j] = text

Elements(v) == {v.a[i] : i \in 1..Len(v.a)}

(***************************************************************************)
(* C2: dataObjectToMarkdown never leaves a dangling heading: every heading *)
(* block is immediately followed by a list or paragraph block, and a field *)
(* whose array has no surviving element contributes no block at all.       *)
(* Refuted by the code: the heading is pushed before the array is          *)
(* filtered, and stays when nothing survives.                              *)
(***************************************************************************)
C2_NoDanglingHeading ==
    pc = "markdown" =>
        /\ \A i \in 1..Len(children) :
              children[i].type = "heading" =>
                  /\ i < Len(children)
                  /\ children[i + 1].type \in {"list", "paragraph"}
        /\ \A k \in DOMAIN data :
              (data[k].t = "array" /\ NormalizesToEmpty(data[k]))
                  => HeadingPositions(k) = {}

(***************************************************************************)
(* C3: a field is skipped (no heading) if and only if its value is         *)
(* null/undefined or a string whose trimmed form is empty; a field whose   *)
(* value is 0 or false gets its heading followed by the text "0" /         *)
(* "false", and 0 / false elements of an array are kept as list items.     *)
(***************************************************************************)
C3_FalsyPreserved ==
    pc = "markdown" =>
        \A k \in DOMAIN data :
            /\ (HeadingPositions(k) = {}) <=> IsEmptyValue(data[k])
            /\ Cardinality(HeadingPositions(k)) <= 1
            /\ data[k] = Num(0) => HeadingThenText(k, <<"0">>)
            /\ data[k] = Bool(FALSE) => HeadingThenText(k, S_false)
            /\ (data[k].t = "array" /\ Num(0) \in Elements(data[k]))
                  => HeadingThenItem(k, <<"0">>)
            /\ (data[k].t = "array" /\ Bool(FALSE) \in Elements(data[k]))
                  => HeadingThenItem(k, S_false)

\* one object with a false field, a 0 in an array and a null field
C3_Witness ==
    /\ pc = "markdown"
    /\ \E k \in DOMAIN data : data[k] = Bool(FALSE) /\ HeadingThenText(k, S_false)
    /\ \E k \in DOMAIN data :
          data[k].t = "array" /\ Num(0) \in Elements(data[k])
              /\ HeadingThenItem(k, <<"0">>)
    /\ \E k \in DOMAIN data : data[k] = Null /\ HeadingPositions(k) = {}

(***************************************************************************)
(* The walk, read from the document: which field a block belongs to and    *)
(* what the block contributes.                                             *)
(***************************************************************************)
IsTopHeading(node) == node.type = "heading" /\ node.top
IsContent(node) == node.type \in {"paragraph", "list"} /\ node.top

\* the declared fields whose name matches a heading text
Matching(S, text) ==
    {i \in 1..Len(S.shape) : SameFold(text, S.shape[i].name)}

Max(set) == CHOOSE x \in set : \A y \in set : y <= x

\* index of the last top-level heading among the nodes, 0 if there is none
LastHeadingPos(nodes) ==
    LET hs == {i \in 1..Len(nodes) : IsTopHeading(nodes[i])}
    IN  IF hs = {} THEN 0 ELSE Max(hs)

\* no field owns the blocks that come next
UnrecognizedSection(nodes, S) ==
    \/ LastHeadingPos(nodes) = 0
    \/ Matching(S, nodes[LastHeadingPos(nodes)].text) = {}

\* the field that owns block i: the last declared of the fields matching the
\* nearest heading before it; 0 if there is none
OwnerOf(nodes, S, i) ==
    LET h == LastHeadingPos(SubSeq(nodes, 1, i - 1))
    IN  IF h = 0 \/ Matching(S, nodes[h].text) = {} THEN 0
        ELSE Max(Matching(S, nodes[h].text))

IsPlaceholder(node) ==
    /\ node.type = "paragraph"
    /\ trim(node.text) = S_NoResponse
    /\ node.emphasis

CleanItems(items) ==
    LET kept == SelectSeq(items, LAMBDA it : ~AllSpace(it))
    IN  [i \in 1..Len(kept) |-> trim(kept[i])]

\* what a block gives an array field: a sequence of elements
ArrayPart(node) ==
    IF node.type = "list" THEN CleanItems(node.items) ELSE CleanLines(node.text)

\* what a block gives a scalar field: at most one piece of text
ScalarPart(node) ==
    IF node.type = "list"
    THEN IF CleanItems(node.items) = <<>> THEN <<>>
         ELSE <<join(CleanItems(node.items), NL)>>
    ELSE IF AllSpace(node.text) THEN <<>> ELSE <<trim(node.text)>>

IsArrayField(f) == f.base = "array" /\ Len(f.wrappers) <= 1

\* the parts of the blocks owned by field i, in document order; placeholder
\* paragraphs are left out when skipPlaceholders
RECURSIVE PartsFrom(_, _, _, _, _)
PartsFrom(nodes, S, i, n, skipPlaceholders) ==
    IF n > Len(nodes) THEN <<>>
    ELSE (IF /\ IsContent(nodes[n])
             /\ OwnerOf(nodes, S, n) = i
             /\ ~(skipPlaceholders /\ IsPlaceholder(nodes[n]))
          THEN IF IsArrayField(S.shape[i]) THEN ArrayPart(nodes[n])
               ELSE ScalarPart(nodes[n])
          ELSE <<>>)
         \o PartsFrom(nodes, S, i, n + 1, skipPlaceholders)

Parts(i, skipPlaceholders) == PartsFrom(tree, schema, i, 1, skipPlaceholders)

ArrayFields == {i \in 1..Len(schema.shape) : IsArrayField(schema.shape[i])}
ScalarFields == {i \in 1..Len(schema.shape) : ~IsArrayField(schema.shape[i])}

RawOf(i) == rawGet(rawData, schema.shape[i].name)

(***************************************************************************)
(* C4: a heading that matches no schema field resets the cursor to none,   *)
(* so blocks before the first recognized heading or after an unrecognized  *)
(* heading leave every accumulated value as it was.                        *)
(* Refuted by the code for the headings "constructor" and "__proto__":     *)
(* the key map inherits them from Object.prototype (see C5).               *)
(***************************************************************************)
C4_UnrecognizedIgnored ==
    UnrecognizedSection(tree, schema) =>
        /\ currentKey = NoKey
        /\ rawData = walk(WalkStart, SubSeq(tree, 1, LastHeadingPos(tree)),
                          schema, nullSupport).rawData

(***************************************************************************)
(* C5: at every step of the walk the keys written to the raw mapping are   *)
(* declared field names of the schema, whatever the heading texts.         *)
(* Refuted by the code: under the heading "constructor" the cursor is      *)
(* Object, and the block is written under the key                          *)
(* "function Object() { [native code] }".                                  *)
(***************************************************************************)
C5_RawKeysDeclared == DOMAIN rawData \subseteq KeySet(schema)

\* the raw value the blocks of array field i add up to, as a sequence
ArrayHeld(i) == IF RawOf(i).kind = "array" THEN RawOf(i).a ELSE <<>>

\* the raw value of scalar field i: nothing, or one text
ScalarHeld(i) == IF RawOf(i).kind = "string" THEN <<RawOf(i).s>> ELSE <<>>

ScalarExpected(parts) == IF parts = <<>> THEN <<>> ELSE <<join(parts, NL)>>

(***************************************************************************)
(* C6, as stated: for an array-typed field, any interleaving of list and   *)
(* paragraph blocks under its heading accumulates into the concatenation,  *)
(* in document order, of each list's trimmed non-empty items and each      *)
(* paragraph's trimmed non-empty lines.   Refuted: with the null           *)
(* placeholder option on (the default), an emphasized "No response"        *)
(* paragraph adds nothing.                                                 *)
(***************************************************************************)
C6_ArrayAllBlocks ==
    \A i \in ArrayFields :
        /\ RawOf(i).kind \in {"array", "undefined"}
        /\ ArrayHeld(i) = Parts(i, FALSE)

(***************************************************************************)
(* C6, amended: for an array-typed field the accumulated array is the      *)
(* concatenation, in document order, of each list's trimmed non-empty      *)
(* items and each paragraph's trimmed non-empty lines, over the blocks     *)
(* under its heading other than null-placeholder paragraphs (option on,    *)
(* text exactly "No response", first child an emphasis); a later block     *)
(* never overwrites an earlier block's contribution.                       *)
(***************************************************************************)
C6_ArrayAccumulation ==
    \A i \in ArrayFields :
        /\ RawOf(i).kind \in {"array", "undefined"}
        /\ ArrayHeld(i) = Parts(i, nullSupport)
        /\ (RawOf(i).kind = "array") <=> (Parts(i, nullSupport) # <<>>)

\* heading, list, paragraph, list: the example of the claim
C6_Witness ==
    /\ Len(tree) = 4
    /\ IsTopHeading(tree[1])
    /\ tree[2] = List(<<S_x>>)
    /\ tree[3] = Paragraph(<<"x", NL, SP, "1">>, FALSE)
    /\ tree[4] = List(<<<<>>, <<"1", SP>>>>)
    /\ \E i \in ArrayFields : RawOf(i).a = <<S_x, S_x, <<"1">>, <<"1">>>>

(***************************************************************************)
(* C7, as stated: for a scalar-typed field the accumulated raw value is    *)
(* the contributions of all non-empty paragraph and list blocks under its  *)
(* heading joined by a single newline in document order.   Refuted: with   *)
(* the null placeholder option on, an emphasized "No response" paragraph   *)
(* is non-empty and contributes nothing.                                   *)
(***************************************************************************)
C7_ScalarAllBlocks ==
    \A i \in ScalarFields : ScalarHeld(i) = ScalarExpected(Parts(i, FALSE))

(***************************************************************************)
(* C7, amended: for a scalar-typed field the accumulated raw value is the  *)
(* contributions of the non-empty paragraph and list blocks under its      *)
(* heading, other than null-placeholder paragraphs, joined by a single     *)
(* newline in document order; a paragraph contributes its trimmed text, a  *)
(* list its trimmed non-empty items joined by newline; the first           *)
(* contribution has no leading newline.                                    *)
(***************************************************************************)
C7_ScalarConcatenation ==
    \A i \in ScalarFields :
        /\ RawOf(i).kind \in {"string", "undefined"}
        /\ ScalarHeld(i) = ScalarExpected(Parts(i, nullSupport))

\* paragraph, list, paragraph under one scalar heading
C7_Witness ==
    /\ Len(tree) = 4
    /\ IsTopHeading(tree[1])
    /\ tree[2] = Paragraph(S_x, FALSE)
    /\ tree[3] = List(<<<<>>, <<"1", SP>>>>)
    /\ tree[4] = Paragraph(<<"x", NL, SP, "1">>, FALSE)
    /\ \E i \in ScalarFields :
          RawOf(i).s = <<"x", NL, "1", NL, "x", NL, SP, "1">>

(***************************************************************************)
(* What a schema accepts, read from its declaration.                       *)
(***************************************************************************)
IsNumeral(text) == text # <<>> /\ \A i \in 1..Len(text) : text[i] \in Digits

TextAccepted(base, values, text) ==
    CASE base = "string" -> TRUE
      [] base = "number" -> IsNumeral(text)
      [] base = "enum" -> text \in values
      [] base = "stringbool" ->
            toLowerCase(text) \in {S_true, S_false, S_yes, S_no, <<"1">>, <<"0">>}
      [] OTHER -> FALSE

IsRequired(f) == \A i \in 1..Len(f.wrappers) : f.wrappers[i] \notin {"optional", "default"}

\* the schema takes the raw value of field f
RawAccepted(f, raw) ==
    CASE raw.kind = "undefined" -> ~IsRequired(f)
      [] raw.kind = "string" ->
            f.base # "array" /\ TextAccepted(f.base, f.values, raw.s)
      [] raw.kind = "array" ->
            /\ f.base = "array"
            /\ \A i \in 1..Len(raw.a) : TextAccepted(f.element, f.values, raw.a[i])

TypeOf(base) ==
    CASE base = "string" -> "string"
      [] base = "enum" -> "string"
      [] base = "number" -> "number"
      [] base = "stringbool" -> "boolean"
      [] base = "array" -> "array"

\* the output value v satisfies field f
Satisfies(f, v) ==
    \/ v.t = "undefined" /\ "optional" \in {f.wrappers[i] : i \in 1..Len(f.wrappers)}
    \/ /\ v.t = TypeOf(f.base)
       /\ f.base = "enum" => v.s \in f.values
       /\ f.base = "array" =>
             \A i \in 1..Len(v.a) :
                 /\ v.a[i].t = TypeOf(f.element)
                 /\ f.element = "enum" => v.a[i].s \in f.values

(***************************************************************************)
(* C8: markdownToDataObject either returns an object in which every        *)
(* declared field satisfies the schema, or fails; whenever the raw mapping *)
(* lacks a required field or holds a value the schema rejects the call     *)
(* fails and no partial object is returned.                                *)
(***************************************************************************)
C8_AllOrNothing ==
    /\ pc = "returned" =>
          /\ result.status = "returned"
          /\ DOMAIN result.value = KeySet(schema)
          /\ \A k \in KeySet(schema) : Satisfies(FieldOf(schema, k), result.value[k])
    /\ pc = "thrown" => result = Thrown
    /\ (pc \in {"returned", "thrown"}
           /\ \E k \in KeySet(schema) :
                 ~RawAccepted(FieldOf(schema, k), rawGet(rawData, k)))
          => pc = "thrown"

\* one field holds a value outside its enum, every other field is fine
C8_Witness ==
    /\ pc = "thrown"
    /\ \E k \in KeySet(schema) :
          /\ FieldOf(schema, k).base = "enum"
          /\ rawGet(rawData, k).kind = "string"
          /\ rawGet(rawData, k).s \notin FieldOf(schema, k).values
          /\ \A j \in KeySet(schema) \ {k} :
                /\ j \in DOMAIN rawData
                /\ RawAccepted(FieldOf(schema, j), rawGet(rawData, j))

IsNormalized(obj) == NoEmptyField(obj) /\ NormObject(obj) = obj

Selected(i) == currentKey = [kind |-> "field", name |-> schema.shape[i].name]

\* the walk has just taken a top-level heading
AtHeading == tree # <<>> /\ IsTopHeading(tree[Len(tree)])

\* the walk has just taken a plain one-line paragraph right after a heading
AtFirstValue ==
    /\ Len(tree) >= 2
    /\ IsTopHeading(tree[Len(tree) - 1])
    /\ tree[Len(tree)] = Paragraph(S_x, FALSE)

C10_SelectsEveryMatch ==
    /\ AtHeading =>
          \A i \in 1..Len(schema.shape) :
              Selected(i) <=> i \in Matching(schema, tree[Len(tree)].text)
    /\ AtFirstValue =>
          \A i \in Matching(schema, tree[Len(tree) - 1].text) :
              schema.shape[i].name \in DOMAIN rawData

(***************************************************************************)
(* C10, amended: a heading selects schema field f exactly when f is the    *)
(* last declared field whose trim + lower-cased name equals the trim +     *)
(* lower-cased heading text, and the value is then stored under f's        *)
(* declared (un-normalized) name.                                          *)
(***************************************************************************)
C10_SelectsLastMatch ==
    /\ AtHeading =>
          \A i \in 1..Len(schema.shape) :
              Selected(i) <=>
                  /\ Matching(schema, tree[Len(tree)].text) # {}
                  /\ i = Max(Matching(schema, tree[Len(tree)].text))
    /\ AtFirstValue =>
          LET m == Matching(schema, tree[Len(tree) - 1].text)
          IN  m # {} => schema.shape[Max(m)].name \in DOMAIN rawData

\* heading "Tags " fills the field declared as "tags"; heading "ab" the
\* field declared as "Ab"
C10_Witness ==
    /\ schema = SchemaW1
    /\ Len(tree) = 4
    /\ tree[1].text = <<"T", "a", "g", "s", SP>>
    /\ tree[2] = Paragraph(S_x, FALSE)
    /\ tree[3].text = K_ab
    /\ tree[4] = Paragraph(S_x, FALSE)
    /\ rawData = (K_tags :> RawArr(<<S_x>>)) @@ (K_Ab :> RawStr(S_x))

(***************************************************************************)
(* One step of the walk, read from the node it has just taken.             *)
(***************************************************************************)
Taken == tree'[Len(tree')]

TakesParagraph ==
    /\ Len(tree') = Len(tree) + 1
    /\ Taken.type = "paragraph" /\ Taken.top

\* field i with one more paragraph of the given text accumulated
WithParagraph(i, text) ==
    (schema.shape[i].name :>
        (IF IsArrayField(schema.shape[i])
         THEN RawArr(ArrayHeld(i) \o CleanLines(text))
         ELSE RawStr(join(ScalarHeld(i) \o <<trim(text)>>, NL)))) @@ rawData

(***************************************************************************)
(* C11: with the null-value option on, a paragraph under a recognized      *)
(* heading whose whole text is exactly "No response" and whose first       *)
(* inline child is an emphasis leaves the raw mapping (and the cursor)     *)
(* unchanged; with the option off, or when the same text is not in         *)
(* emphasis, or when an emphasis holds another text, the paragraph is      *)
(* accumulated like any other paragraph.                                   *)
(***************************************************************************)
C11_NullPlaceholder ==
    [][\A i \in 1..Len(schema.shape) :
          (Selected(i) /\ TakesParagraph /\ ~AllSpace(Taken.text)) =>
              /\ currentKey' = currentKey
              /\ IF nullSupport /\ IsPlaceholder(Taken)
                 THEN rawData' = rawData
                 ELSE rawData' = WithParagraph(i, Taken.text)]_vars

\* option on: text, then the placeholder, under a recognized heading
C11_Witness ==
    /\ nullSupport
    /\ Len(tree) = 3
    /\ tree[1] = Heading(3, K_ab)
    /\ tree[2] = Paragraph(S_x, FALSE)
    /\ tree[3] = Paragraph(S_NoResponse, TRUE)
    /\ \E i \in 1..Len(schema.shape) :
          Selected(i) /\ (ArrayHeld(i) = <<S_x>> \/ ScalarHeld(i) = <<S_x>>)

(***************************************************************************)
(* The headings of the output, read from the blocks and from the text.     *)
(***************************************************************************)
HeadingTexts ==
    LET hs == SelectSeq(children, LAMBDA b : b.type = "heading")
    IN  [i \in 1..Len(hs) |-> hs[i].text]

\* the lines of the markdown text that open with "#", without the marker
HeadingLines ==
    LET ls == SelectSeq(split(markdown, NL), LAMBDA l : l # <<>> /\ l[1] = "#")
    IN  [i \in 1..Len(ls) |-> ls[i]]

HeadingLine(key) == <<"#", "#", "#", SP>> \o key

\* the keys the headings are expected for, in the expected order
OrderedKeys == IF outputOrder.given THEN outputOrder.keys ELSE ObjectKeys(schema)

HasValue(key) == key \in DOMAIN data /\ ~IsEmptyValue(data[key])

(***************************************************************************)
(* C12: the field headings of dataObjectToMarkdown appear in the order     *)
(* given by outputOrder, or in the schema's declaration order when         *)
(* outputOrder is not given (one heading per listed field whose value is   *)
(* not skipped), and no heading is emitted for a data key that is not a    *)
(* declared field of the schema.                                           *)
(***************************************************************************)
C12_OutputOrder ==
    pc = "markdown" =>
        LET expected == SelectSeq(OrderedKeys, HasValue)
        IN  /\ HeadingTexts = expected
            /\ HeadingLines = [i \in 1..Len(expected) |-> HeadingLine(expected[i])]
            /\ \A k \in DOMAIN data \ KeySet(schema) :
                  /\ HeadingPositions(k) = {}
                  /\ \A i \in 1..Len(HeadingLines) : HeadingLines[i] # HeadingLine(k)

\* three fields written in the reverse of their declaration order, from an
\* object that also carries an undeclared key
C12_Witness ==
    /\ pc = "markdown"
    /\ outputOrder.given
    /\ Len(schema.shape) = 3
    /\ outputOrder.keys = reverse(ObjectKeys(schema))
    /\ HeadingTexts = outputOrder.keys
    /\ K_extra \in DOMAIN data /\ ~IsEmptyValue(data[K_extra])

(***************************************************************************)
(* Sections of the document without content.                               *)
(***************************************************************************)
IsTrimmed(text) ==
    text # <<>> /\ ~IsSpace(text[1]) /\ ~IsSpace(text[Len(text)])

NonEmptyRaw(raw) ==
    \/ raw.kind = "string" /\ IsTrimmed(raw.s)
    \/ /\ raw.kind = "array"
       /\ raw.a # <<>>
       /\ \A j \in 1..Len(raw.a) : IsTrimmed(raw.a[j])

\* the content blocks under the headings of field i
SectionBlocks(i) ==
    {n \in 1..Len(tree) : IsContent(tree[n]) /\ OwnerOf(tree, schema, n) = i}

IsBlank(node) ==
    IF node.type = "list"
    THEN \A j \in 1..Len(node.items) : AllSpace(node.items[j])
    ELSE AllSpace(node.text)

\* field i has no block, or only blank blocks and null placeholders
OnlyEmpty(i) ==
    \A n \in SectionBlocks(i) :
        IsBlank(tree[n]) \/ (nullSupport /\ IsPlaceholder(tree[n]))

HasHeading(i) ==
    \E n \in 1..Len(tree) : IsTopHeading(tree[n]) /\ OwnerOf(tree, schema, n + 1) = i

Wrappers(f) == {f.wrappers[j] : j \in 1..Len(f.wrappers)}

(***************************************************************************)
(* C13: no empty value is ever accumulated.  At every step of the walk     *)
(* each key present in the raw mapping holds a non-empty string (scalar    *)
(* field) or a non-empty array of non-empty trimmed strings (array field); *)
(* a recognized heading followed by no content, by blank content or by     *)
(* null placeholders only leaves its field absent from the raw mapping, so *)
(* that a default or optional applies and a required field makes the call  *)
(* fail.                                                                   *)
(***************************************************************************)
C13_NoEmptyAccumulated ==
    /\ \A k \in DOMAIN rawData : NonEmptyRaw(rawData[k])
    /\ \A i \in 1..Len(schema.shape) :
          LET f == schema.shape[i]
          IN  /\ f.name \in DOMAIN rawData =>
                    (rawData[f.name].kind = "array") <=> IsArrayField(f)
              /\ OnlyEmpty(i) => f.name \notin DOMAIN rawData
              /\ (pc = "returned" /\ f.name \notin DOMAIN rawData) =>
                    /\ ~IsRequired(f)
                    /\ result.value[f.name] =
                          (IF "default" \in Wrappers(f) THEN f.dflt ELSE Undefined)
              /\ (pc \in {"returned", "thrown"} /\ f.name \notin DOMAIN rawData
                     /\ IsRequired(f))
                    => pc = "thrown"

\* a recognized heading, a blank list, a blank paragraph and a placeholder:
\* the required field stays absent and the call fails
C13_Witness ==
    /\ pc = "thrown"
    /\ nullSupport
    /\ Len(tree) = 4
    /\ tree[2] = List(<<<<SP>>>>)
    /\ tree[3] = Paragraph(<<SP>>, FALSE)
    /\ tree[4] = Paragraph(S_NoResponse, TRUE)
    /\ rawData = <<>>
    /\ \E i \in 1..Len(schema.shape) :
          HasHeading(i) /\ IsRequired(schema.shape[i])

TakesList ==
    /\ Len(tree') = Len(tree) + 1
    /\ Taken.type = "list" /\ Taken.top

\* field i with the given list items accumulated
WithItems(i, items) ==
    (schema.shape[i].name :>
        (IF IsArrayField(schema.shape[i])
         THEN RawArr(ArrayHeld(i) \o items)
         ELSE RawStr(join(ScalarHeld(i) \o <<join(items, NL)>>, NL)))) @@ rawData

(***************************************************************************)
(* C14: list items whose text is empty or whitespace-only are dropped      *)
(* before accumulation, and a list block in which no item survives changes *)
(* neither the raw mapping (the value accumulated for the current key is   *)
(* neither cleared nor overwritten) nor the cursor.                        *)
(***************************************************************************)
C14_EmptyItemsDropped ==
    [][TakesList =>
          /\ currentKey' = currentKey
          /\ IsBlank(Taken) => rawData' = rawData
          /\ \A i \in 1..Len(schema.shape) :
                (Selected(i) /\ ~IsBlank(Taken)) =>
                    rawData' = WithItems(i, CleanItems(Taken.items))]_vars

\* a value, then a list of blank items, then a list with one blank item
C14_Witness ==
    /\ Len(tree) = 4
    /\ IsTopHeading(tree[1])
    /\ tree[2] = Paragraph(S_x, FALSE)
    /\ tree[3] = List(<<<<SP>>>>)
    /\ tree[4] = List(<<<<>>, <<"1", SP>>>>)
    /\ \E i \in 1..Len(schema.shape) :
          /\ Selected(i)
          /\ \/ ArrayHeld(i) = <<S_x, <<"1">>>>
             \/ ScalarHeld(i) = <<<<"x", NL, "1">>>>

(***************************************************************************)
(* Growth of the raw mapping from one step of the walk to the next.        *)
(***************************************************************************)
IsPrefix(p, q) == Len(p) <= Len(q) /\ SubSeq(q, 1, Len(p)) = p

\* new holds everything old held, in the same order, at its beginning
Extends(old, new) ==
    /\ new.kind = old.kind
    /\ old.kind = "array" => IsPrefix(old.a, new.a)
    /\ old.kind = "string" =>
          \/ new.s = old.s
          \/ IsPrefix(old.s \o <<NL>>, new.s)

TakesContent == Len(tree') = Len(tree) + 1 /\ IsContent(Taken)

\* the heading of field i had content, and came back after another heading
HeadingCameBack(i) ==
    \E a, b, c \in 1..Len(tree) :
        /\ a < b /\ b < c
        /\ IsTopHeading(tree[a]) /\ IsTopHeading(tree[b]) /\ IsTopHeading(tree[c])
        /\ OwnerOf(tree, schema, a + 1) = i
        /\ OwnerOf(tree, schema, b + 1) # i
        /\ OwnerOf(tree, schema, c + 1) = i
        /\ \E n \in (a + 1)..(b - 1) : IsContent(tree[n]) /\ ~IsBlank(tree[n])

(***************************************************************************)
(* C15: accumulation is monotonic across the whole walk.  Once content has *)
(* been accumulated for a field no later node removes or reorders it, and  *)
(* when the heading of the field occurs again later in the document the    *)
(* content under the later occurrence is appended to the value accumulated *)
(* under the earlier one.                                                  *)
(***************************************************************************)
C15_MonotonicAccumulation ==
    [][/\ \A k \in DOMAIN rawData :
             k \in DOMAIN rawData' /\ Extends(rawData[k], rawData'[k])
       /\ \A i \in 1..Len(schema.shape) :
             (Selected(i) /\ TakesContent /\ ~IsBlank(Taken)) =>
                 rawData' = IF Taken.type = "list"
                            THEN WithItems(i, CleanItems(Taken.items))
                            ELSE WithParagraph(i, Taken.text)]_vars

\* heading, paragraph, another heading with a list, the first heading again
\* and a list: the field holds the paragraph and then the last list
C15_Witness ==
    /\ Len(tree) = 6
    /\ tree[2] = Paragraph(S_x, FALSE)
    /\ IsContent(tree[4])
    /\ tree[5] = tree[1]
    /\ tree[6] = List(<<<<>>, <<"1", SP>>>>)
    /\ \E i \in 1..Len(schema.shape) :
          /\ Selected(i)
          /\ HeadingCameBack(i)
          /\ \/ ArrayHeld(i) = <<S_x, <<"1">>>>
             \/ ScalarHeld(i) = <<<<"x", NL, "1">>>>
    /\ Cardinality(DOMAIN rawData) = 2

====
